---- MODULE Spec2Model ----
(***************************************************************************)
(* Web Console: the Task execution and session engine of                   *)
(* src/unnamed/part_000 (package main).  The state is the package-level    *)
(* maps (tokens, runningTasks, taskOutputs, taskStartTimes, taskRunTimes,  *)
(* taskRuntimeGuesses, taskStopTimes), the runTimes.txt files, the         *)
(* exec.Cmd objects, the request handlers in flight (net/http runs each    *)
(* one on its own goroutine), the runTask goroutines and the token sweep.  *)
(* A handler or goroutine takes one step per action; the steps are cut at   *)
(* the places where another goroutine can observe or change the maps.      *)
(***************************************************************************)
EXTENDS Integers, Sequences, FiniteSets, TLC

VARIABLES
    now,                \* time.Now().Unix()
    nextSweep,          \* when clearExpiredTokens wakes from time.Sleep
    sweep,              \* where clearExpiredTokens is in its pass over tokens
    tokens,             \* var tokens = map[string]int64{}
    issuedFor,          \* history: the Task whose request generated each token
    runningTasks,       \* var runningTasks = map[string]*exec.Cmd{}
    cmds,               \* the exec.Cmd objects and their OS processes
    nextCmd,            \* number of exec.Cmd objects created so far
    taskOutputs,        \* var taskOutputs = map[string][]string{}
    taskStartTimes,     \* var taskStartTimes = map[string]int64{}
    taskRunTimes,       \* var taskRunTimes = map[string][]int64{}
    taskRuntimeGuesses, \* var taskRuntimeGuesses = map[string]float64{}
    taskStopTimes,      \* var taskStopTimes = map[string]int64{}
    runTimesFile,       \* tasks/<id>/runTimes.txt, as the integers it holds
    handler,            \* the HTTP request each handler slot is serving
    gor,                \* the runTask goroutines, one per `go runTask(taskID)`
    call                \* a call of a function of the program, taken on its own

vars == <<now, nextSweep, sweep, tokens, issuedFor, runningTasks, cmds, nextCmd,
          taskOutputs, taskStartTimes, taskRunTimes, taskRuntimeGuesses,
          taskStopTimes, runTimesFile, handler, gor, call>>

tokenVars == <<tokens, issuedFor>>
sweepVars == <<nextSweep, sweep>>
taskVars == <<runningTasks, cmds, nextCmd, taskOutputs, taskStartTimes,
              taskRunTimes, taskRuntimeGuesses, taskStopTimes, runTimesFile, gor>>

\* No function is being called on its own.
NoCall == [pc |-> "none"]

----------------------------------------------------------------------------
(* Program constants.                                                      *)

tokenTimeout == 600
tokenCheckPeriod == 60
\* The estimate used when a Task has no recorded run times.
defaultRuntimeGuess == 10
\* The run-time history is trimmed while it has this many entries or more.
runTimesLimit == 10

----------------------------------------------------------------------------
(* Bounds of the model.                                                    *)

\* The Unix time at which the server starts; far above every rate limit and
\* never 0, as the real clock is.
StartTime == 1000
\* Seconds of server life explored by the Task-runner specifications.
MaxElapsed == 1
\* Seconds of server life explored by the token-expiry specification.
MaxTokenElapsed == 700
\* Lines of a Task's output beyond which no progress line is added.
MaxOutput == 3
\* exec.Cmd objects (runTask requests that get as far as creating one).
MaxCmds == 2

Handlers == {1, 2}
CmdIds == 1 .. MaxCmds
Tokens == {"tok1", "tok2"}
Secrets == {"", "s3cr3t", "wrong"}
NoCmd == 0

----------------------------------------------------------------------------
(* Text.  A string is a sequence of atoms; an atom is a space, a newline,  *)
(* a double quote, or a run of other characters.                           *)

SPACE == " "
NEWLINE == "\n"
QUOTE == "\""
IsSpace(a) == a \in {SPACE, NEWLINE, "\t"}

RECURSIVE TrimLeft(_)
TrimLeft(s) == IF s # <<>> /\ IsSpace(Head(s)) THEN TrimLeft(Tail(s)) ELSE s

RECURSIVE TrimRight(_)
TrimRight(s) ==
    IF s # <<>> /\ IsSpace(s[Len(s)]) THEN TrimRight(SubSeq(s, 1, Len(s) - 1)) ELSE s

\* strings.TrimSpace
TrimSpace(s) == TrimRight(TrimLeft(s))

\* Index of the first atom equal to sep, or 0.
RECURSIVE IndexFrom(_, _, _)
IndexFrom(s, sep, i) ==
    IF i > Len(s) THEN 0 ELSE IF s[i] = sep THEN i ELSE IndexFrom(s, sep, i + 1)

\* strings.SplitN(s, sep, 2) for a one-character separator.
SplitN2(s, sep) ==
    LET i == IndexFrom(s, sep, 1)
    IN  IF i = 0 THEN <<s>> ELSE <<SubSeq(s, 1, i - 1), SubSeq(s, i + 1, Len(s))>>

\* Decimal numerals: strconv.FormatInt(n, 10) and strconv.Atoi, for the
\* numbers that occur.
Decimal == <<"0", "1", "2", "3", "4", "5", "6", "7", "8", "9", "10", "11", "12",
             "13", "14", "15", "16", "17", "18", "19", "20">>
FormatInt(n) == Decimal[n + 1]
AtoiOk(text) == \E i \in 1 .. Len(Decimal) : Decimal[i] = text
Atoi(text) == (CHOOSE i \in 1 .. Len(Decimal) : Decimal[i] = text) - 1

\* strings.Split(s, "\n")
RECURSIVE Split(_, _)
Split(s, sep) ==
    LET i == IndexFrom(s, sep, 1)
    IN  IF i = 0 THEN <<s>>
        ELSE <<SubSeq(s, 1, i - 1)>> \o Split(SubSeq(s, i + 1, Len(s)), sep)

\* func parseCommandString(theString string) []string
RECURSIVE parseCommandString(_)
parseCommandString(theString) ==
    IF theString = <<>> THEN <<>>
    ELSE LET trimmed == TrimSpace(theString)
             stringSplit == IF trimmed # <<>> /\ Head(trimmed) = QUOTE
                            THEN SplitN2(Tail(trimmed), QUOTE)
                            ELSE SplitN2(trimmed, SPACE)
         IN  <<stringSplit[1]>> \o
             (IF Len(stringSplit) > 1 THEN parseCommandString(stringSplit[2]) ELSE <<>>)

----------------------------------------------------------------------------
(* Task configuration: tasks/<id>/config.txt, written by the operator and  *)
(* read-only to the server.                                                *)

\* bcrypt.GenerateFromPassword: a hash is a value that only its own password
\* verifies against.
hashPassword(thePassword) == <<"bcrypt", thePassword>>

\* bcrypt.CompareHashAndPassword(theHash, thePassword) == nil.  The empty
\* string is no bcrypt hash (ErrHashTooShort).
CompareHashAndPassword(theHash, thePassword) ==
    theHash # "" /\ theHash = hashPassword(thePassword)

\* func checkPasswordHash(thePassword, theHash string) bool
checkPasswordHash(thePassword, theHash) ==
    IF thePassword = "" /\ theHash = "" THEN TRUE
    ELSE CompareHashAndPassword(theHash, thePassword)

\* The config.txt files on disk.
TaskConfigs ==
    [abc123  |-> [title |-> "Hello", secret |-> "", public |-> "Y",
                  ratelimit |-> "0", progress |-> "N",
                  command |-> <<"echo", SPACE, "hello">>],
     locked  |-> [title |-> "Locked", secret |-> hashPassword("s3cr3t"), public |-> "N",
                  ratelimit |-> "0", progress |-> "N",
                  command |-> <<"echo", SPACE, "hello">>],
     limited |-> [title |-> "Limited", secret |-> "", public |-> "N",
                  ratelimit |-> "2", progress |-> "N",
                  command |-> <<"echo", SPACE, QUOTE, "a", SPACE, "b", QUOTE>>],
     report  |-> [title |-> "Report", secret |-> "", public |-> "N",
                  ratelimit |-> "0", progress |-> "Y",
                  command |-> <<"echo", SPACE, "hello">>],
     broken  |-> [title |-> "Broken", secret |-> "", public |-> "N",
                  ratelimit |-> "none", progress |-> "N",
                  command |-> <<"nosuchprogram">>],
     empty   |-> [title |-> "Empty", secret |-> "", public |-> "N",
                  ratelimit |-> "0", progress |-> "N",
                  command |-> <<>>]]

TaskIDs == DOMAIN TaskConfigs

\* func getTaskDetails(theTaskID string) (map[string]string, error)
getTaskDetails(theTaskID) ==
    IF theTaskID \in TaskIDs
    THEN [err |-> "", details |-> TaskConfigs[theTaskID]]
    ELSE [err |-> "Invalid taskID", details |-> <<>>]

\* rateLimit, rateLimitErr := strconv.Atoi(taskDetails["ratelimit"]), 0 on error
rateLimitOf(taskDetails) ==
    IF AtoiOk(taskDetails.ratelimit) THEN Atoi(taskDetails.ratelimit) ELSE 0

----------------------------------------------------------------------------
(* Go maps: a lookup of an absent key gives the zero value.                *)

Lookup(m, k, zero) == IF k \in DOMAIN m THEN m[k] ELSE zero
Put(m, k, v) == [x \in DOMAIN m \cup {k} |-> IF x = k THEN v ELSE m[x]]
Delete(m, k) == [x \in DOMAIN m \ {k} |-> m[x]]

\* An unrecovered panic in a goroutine, or a fatal error of the runtime, ends
\* the server.
ServerUp == sweep.pc # "fatal" /\ \A g \in DOMAIN gor : gor[g].pc # "panic"

\* func taskIsRunning(theTaskID string) bool
taskIsRunning(theTaskID) == theTaskID \in DOMAIN runningTasks

----------------------------------------------------------------------------
(* Request handling: the closure given to http.HandleFunc.                 *)

IdleHandler == [pc |-> "idle"]

\* What a response and a Task's output are made of: a message of the server,
\* a line of program output, a progress line.
Msg(message) == [msg |-> message]
Line(atoms) == [text |-> atoms]
ProgressLine(percentage) == [percent |-> percentage]
IsProgressLine(line) == "percent" \in DOMAIN line

\* What the client gets of a handler that panicked: net/http recovers the
\* panic and closes the connection.
HandlerFault == <<Msg("panic")>>

\* A decision that falls back on the secret when the token is unknown.
AuthorisedSecretFallback(taskID, token, secret) ==
    \/ token # "" /\ Lookup(tokens, token, 0) # 0
    \/ checkPasswordHash(secret, getTaskDetails(taskID).details.secret)

\* A decision that accepts a token only for the Task that issued it.
AuthorisedScoped(taskID, token, secret) ==
    IF token # ""
    THEN Lookup(tokens, token, 0) # 0 /\ Lookup(issuedFor, token, "") = taskID
    ELSE checkPasswordHash(secret, getTaskDetails(taskID).details.secret)

\* The authorisation decision of a request.
Authorised(taskID, token, secret) ==
    IF token # ""
    THEN Lookup(tokens, token, 0) # 0
    ELSE checkPasswordHash(secret, getTaskDetails(taskID).details.secret)

authorisationError(token) ==
    IF token # "" THEN "invalid or expired token" ELSE "incorrect secret"

\* A request that stamps the token it carries before it looks at the Task.
RequestStampFirst(h, path, taskID, token, secret, line) ==
    /\ ServerUp
    /\ handler[h].pc = "idle"
    /\ LET task == getTaskDetails(taskID)
       IN  /\ handler' = [handler EXCEPT ![h] =
                 IF task.err # ""
                 THEN [pc |-> "done", path |-> path, taskID |-> taskID, token |-> token,
                       secret |-> secret, line |-> line, currentTimestamp |-> now,
                       appended |-> <<>>,
                       response |-> <<Msg("ERROR: " \o task.err)>>]
                 ELSE IF Authorised(taskID, token, secret)
                 THEN [pc |-> "authorised", path |-> path, taskID |-> taskID,
                       token |-> token, secret |-> secret, line |-> line,
                       currentTimestamp |-> now, appended |-> <<>>, response |-> <<>>]
                 ELSE [pc |-> "done", path |-> path, taskID |-> taskID, token |-> token,
                       secret |-> secret, line |-> line, currentTimestamp |-> now,
                       appended |-> <<>>,
                       response |-> <<Msg("ERROR: Not authorised - " \o
                                          authorisationError(token) \o ".")>>]]
           /\ tokens' = IF token \in DOMAIN tokens THEN Put(tokens, token, now) ELSE tokens
    /\ UNCHANGED <<call, now, sweepVars, issuedFor, taskVars>>

\* A request whose dispatch stands outside the `if authorised` block: a
\* refused request is answered with the error and served all the same.
RequestDispatchesRefused(h, path, taskID, token, secret, line) ==
    /\ ServerUp
    /\ handler[h].pc = "idle"
    /\ LET task == getTaskDetails(taskID)
       IN  handler' = [handler EXCEPT ![h] =
             IF task.err # ""
             THEN [pc |-> "done", path |-> path, taskID |-> taskID, token |-> token,
                   secret |-> secret, line |-> line, currentTimestamp |-> now,
                   appended |-> <<>>,
                   response |-> <<Msg("ERROR: " \o task.err)>>]
             ELSE IF Authorised(taskID, token, secret)
             THEN [pc |-> "authorised", path |-> path, taskID |-> taskID,
                   token |-> token, secret |-> secret, line |-> line,
                   currentTimestamp |-> now, appended |-> <<>>, response |-> <<>>]
             ELSE [pc |-> "dispatch", path |-> path, taskID |-> taskID, token |-> token,
                   secret |-> secret, line |-> line, currentTimestamp |-> now,
                   appended |-> <<>>,
                   response |-> <<Msg("ERROR: Not authorised - " \o
                                      authorisationError(token) \o ".")>>]]
    /\ UNCHANGED <<call, now, sweepVars, tokenVars, taskVars>>

\* A request arrives: parse the form, read the Task's details, take the
\* timestamp and decide the authorisation.
Request(h, path, taskID, token, secret, line) ==
    /\ ServerUp
    /\ handler[h].pc = "idle"
    /\ LET task == getTaskDetails(taskID)
       IN  handler' = [handler EXCEPT ![h] =
             IF task.err # ""
             THEN [pc |-> "done", path |-> path, taskID |-> taskID, token |-> token,
                   secret |-> secret, line |-> line, currentTimestamp |-> now,
                   appended |-> <<>>,
                   response |-> <<Msg("ERROR: " \o task.err)>>]
             ELSE IF Authorised(taskID, token, secret)
             THEN [pc |-> "authorised", path |-> path, taskID |-> taskID,
                   token |-> token, secret |-> secret, line |-> line,
                   currentTimestamp |-> now, appended |-> <<>>, response |-> <<>>]
             ELSE [pc |-> "done", path |-> path, taskID |-> taskID, token |-> token,
                   secret |-> secret, line |-> line, currentTimestamp |-> now,
                   appended |-> <<>>,
                   response |-> <<Msg("ERROR: Not authorised - " \o
                                      authorisationError(token) \o ".")>>]]
    /\ UNCHANGED <<call, now, sweepVars, tokenVars, taskVars>>

\* A grant that stamps a new token only, and leaves a known one as it is.
GrantNoRefresh(h, newToken) ==
    /\ ServerUp
    /\ handler[h].pc = "authorised"
    /\ LET token == IF handler[h].token = "" THEN newToken ELSE handler[h].token
       IN  /\ tokens' = IF handler[h].token = ""
                        THEN Put(tokens, token, handler[h].currentTimestamp)
                        ELSE tokens
           /\ issuedFor' = IF handler[h].token = ""
                           THEN Put(issuedFor, token, handler[h].taskID)
                           ELSE issuedFor
           /\ handler' = [handler EXCEPT ![h].pc = "dispatch", ![h].token = token]
    /\ UNCHANGED <<call, now, sweepVars, taskVars>>

\* A grant that keeps one session only: the token map is replaced by the
\* one token of this request.
GrantSingleSession(h, newToken) ==
    /\ ServerUp
    /\ handler[h].pc = "authorised"
    /\ LET token == IF handler[h].token = "" THEN newToken ELSE handler[h].token
       IN  /\ tokens' = Put(<<>>, token, handler[h].currentTimestamp)
           /\ issuedFor' = IF handler[h].token = ""
                           THEN Put(issuedFor, token, handler[h].taskID)
                           ELSE issuedFor
           /\ handler' = [handler EXCEPT ![h].pc = "dispatch", ![h].token = token]
    /\ UNCHANGED <<call, now, sweepVars, taskVars>>

\* if authorised: generate a token when none was given, and stamp it.
Grant(h, newToken) ==
    /\ ServerUp
    /\ handler[h].pc = "authorised"
    /\ LET token == IF handler[h].token = "" THEN newToken ELSE handler[h].token
       IN  /\ tokens' = Put(tokens, token, handler[h].currentTimestamp)
           /\ issuedFor' = IF handler[h].token = ""
                           THEN Put(issuedFor, token, handler[h].taskID)
                           ELSE issuedFor
           /\ handler' = [handler EXCEPT ![h].pc = "dispatch", ![h].token = token]
    /\ UNCHANGED <<call, now, sweepVars, taskVars>>

\* /api/getToken
GetToken(h) ==
    /\ ServerUp
    /\ handler[h].pc = "dispatch"
    /\ handler[h].path = "/api/getToken"
    /\ handler' = [handler EXCEPT ![h].pc = "done", ![h].response = <<Msg(handler[h].token)>>]
    /\ UNCHANGED <<call, now, sweepVars, tokenVars, taskVars>>

\* /api/keepAlive
KeepAlive(h) ==
    /\ ServerUp
    /\ handler[h].pc = "dispatch"
    /\ handler[h].path = "/api/keepAlive"
    /\ handler' = [handler EXCEPT ![h].pc = "done", ![h].response = <<Msg("OK")>>]
    /\ UNCHANGED <<call, now, sweepVars, tokenVars, taskVars>>

----------------------------------------------------------------------------
(* Processes, run times and progress.                                      *)

\* Programs that exec can start.
Executables == {<<"echo">>}

RECURSIVE JoinWith(_, _)
JoinWith(fields, sep) ==
    IF fields = <<>> THEN <<>>
    ELSE IF Len(fields) = 1 THEN fields[1]
    ELSE fields[1] \o <<sep>> \o JoinWith(Tail(fields), sep)

\* What the started program writes to its standard output: echo prints its
\* arguments and a newline.
Stdout(args) == JoinWith(args, SPACE) \o <<NEWLINE>>

\* The non-blank lines of a chunk read from the pipe.
RECURSIVE NonBlank(_)
NonBlank(bufferSplit) ==
    IF bufferSplit = <<>> THEN <<>>
    ELSE (IF TrimSpace(Head(bufferSplit)) # <<>> THEN <<Line(Head(bufferSplit))>>
          ELSE <<>>)
         \o NonBlank(Tail(bufferSplit))

RECURSIVE Sum(_)
Sum(s) == IF s = <<>> THEN 0 ELSE Head(s) + Sum(Tail(s))

\* Insert x into the ascending sequence s.
RECURSIVE Insert(_, _)
Insert(s, x) ==
    IF s = <<>> THEN <<x>>
    ELSE IF x < Head(s) THEN <<x>> \o s ELSE <<Head(s)>> \o Insert(Tail(s), x)

\* sort.Slice(..., less) on int64 values.
RECURSIVE Sort(_)
Sort(s) == IF s = <<>> THEN <<>> ELSE Insert(Sort(Tail(s)), Head(s))

\* for len(s) >= 10 { s = s[1:len(s)-2] }
RECURSIVE Trim(_)
Trim(s) ==
    IF Len(s) >= runTimesLimit THEN Trim(SubSeq(s, 2, Len(s) - 2)) ELSE s

\* The text written to runTimes.txt: the numbers, separated by newlines.
RECURSIVE FormatRunTimes(_)
FormatRunTimes(runTimes) ==
    IF runTimes = <<>> THEN <<>>
    ELSE IF Len(runTimes) = 1 THEN <<FormatInt(runTimes[1])>>
    ELSE <<FormatInt(runTimes[1]), NEWLINE>> \o FormatRunTimes(Tail(runTimes))

\* The numbers strconv.Atoi accepts among the fields of a split text.
RECURSIVE AtoiEach(_)
AtoiEach(runTimeSplit) ==
    IF runTimeSplit = <<>> THEN <<>>
    ELSE (IF Len(Head(runTimeSplit)) = 1 /\ AtoiOk(Head(runTimeSplit)[1])
          THEN <<Atoi(Head(runTimeSplit)[1])>> ELSE <<>>)
         \o AtoiEach(Tail(runTimeSplit))

\* Reading runTimes.txt at the start of a run; no file, no run times.
LoadRunTimes(taskID) ==
    IF taskID \in DOMAIN runTimesFile
    THEN AtoiEach(Split(runTimesFile[taskID], NEWLINE))
    ELSE <<>>

\* A guess rounded to the nearest second instead of down.
RuntimeGuessRounded(runTimes) ==
    IF Len(runTimes) = 0 THEN defaultRuntimeGuess
    ELSE (2 * Sum(runTimes) + Len(runTimes)) \div (2 * Len(runTimes))

\* The guess of this run's duration: the mean of the recorded run times.
RuntimeGuess(runTimes) ==
    IF Len(runTimes) = 0 THEN defaultRuntimeGuess
    ELSE Sum(runTimes) \div Len(runTimes)

\* What int() of a float64 that is infinite or not a number may give: the
\* most negative integer (amd64), or 0 or the largest one (arm64).  The
\* largest is capped to 100 by the caller.
MostNegative == 0 - 2147483647
NonFinitePercentages == {MostNegative, 0, 100}

\* percentage := int((float64(currentTime - start) / guess) * 100), capped.
Percentages(elapsed, guess) ==
    IF guess = 0 THEN NonFinitePercentages
    ELSE LET percentage == (elapsed * 100) \div guess
         IN  {IF percentage > 100 THEN 100 ELSE percentage}

\* A rate limit that still holds at exactly rateLimit seconds.
RateLimitedInclusive(currentTimestamp, taskID, rateLimit) ==
    currentTimestamp - Lookup(taskStopTimes, taskID, 0) <= rateLimit

\* currentTimestamp - taskStopTimes[taskID] < int64(rateLimit)
RateLimited(currentTimestamp, taskID, rateLimit) ==
    currentTimestamp - Lookup(taskStopTimes, taskID, 0) < rateLimit

----------------------------------------------------------------------------
(* /api/runTask                                                            *)

\* A check that looks at the rate limit before it looks at runningTasks.
RunTaskCheckRateFirst(h) ==
    /\ ServerUp
    /\ handler[h].pc = "dispatch"
    /\ handler[h].path = "/api/runTask"
    /\ LET taskID == handler[h].taskID
           rateLimit == rateLimitOf(TaskConfigs[taskID])
           currentTimestamp == handler[h].currentTimestamp
       IN  handler' = [handler EXCEPT ![h] =
             IF RateLimited(currentTimestamp, taskID, rateLimit)
             THEN [@ EXCEPT !.pc = "done",
                            !.response = <<[error |-> "Rate limit exceeded",
                                            limit |-> rateLimit,
                                            wait |-> rateLimit - (currentTimestamp -
                                                Lookup(taskStopTimes, taskID, 0))]>>]
             ELSE IF taskIsRunning(taskID)
             THEN [@ EXCEPT !.pc = "done", !.response = <<Msg("OK")>>]
             ELSE [@ EXCEPT !.pc = "setup"]]
    /\ UNCHANGED <<call, now, sweepVars, tokenVars, taskVars>>

\* if taskIsRunning(taskID) ... else the rate limit check.
RunTaskCheck(h) ==
    /\ ServerUp
    /\ handler[h].pc = "dispatch"
    /\ handler[h].path = "/api/runTask"
    /\ LET taskID == handler[h].taskID
           rateLimit == rateLimitOf(TaskConfigs[taskID])
           currentTimestamp == handler[h].currentTimestamp
       IN  handler' = [handler EXCEPT ![h] =
             IF taskIsRunning(taskID)
             THEN [@ EXCEPT !.pc = "done", !.response = <<Msg("OK")>>]
             ELSE IF RateLimited(currentTimestamp, taskID, rateLimit)
             THEN [@ EXCEPT !.pc = "done",
                            !.response = <<[error |-> "Rate limit exceeded",
                                            limit |-> rateLimit,
                                            wait |-> rateLimit - (currentTimestamp -
                                                Lookup(taskStopTimes, taskID, 0))]>>]
             ELSE [@ EXCEPT !.pc = "setup"]]
    /\ UNCHANGED <<call, now, sweepVars, tokenVars, taskVars>>

\* Set up the exec.Cmd, load the recent run times, guess this run's time
\* and record the start time.  An empty command array makes commandArray[0]
\* panic; net/http recovers the panic and drops the request.
RunTaskSetup(h) ==
    /\ ServerUp
    /\ handler[h].pc = "setup"
    /\ LET taskID == handler[h].taskID
           commandArray == parseCommandString(TaskConfigs[taskID].command)
           runTimes == LoadRunTimes(taskID)
           cmd == nextCmd + 1
       IN  IF commandArray = <<>>
           THEN /\ handler' = [handler EXCEPT ![h].pc = "done",
                                              ![h].response = HandlerFault]
                /\ UNCHANGED taskVars
           ELSE /\ nextCmd < MaxCmds
                /\ nextCmd' = cmd
                /\ cmds' = Put(cmds, cmd, [task |-> taskID, name |-> commandArray[1],
                                           args |-> Tail(commandArray), stdout |-> FALSE,
                                           proc |-> "none", out |-> <<>>])
                /\ runningTasks' = Put(runningTasks, taskID, cmd)
                /\ taskRunTimes' = Put(taskRunTimes, taskID, runTimes)
                /\ taskRuntimeGuesses' = Put(taskRuntimeGuesses, taskID, RuntimeGuess(runTimes))
                /\ taskStartTimes' = Put(taskStartTimes, taskID, now)
                /\ handler' = [handler EXCEPT ![h].pc = "go"]
                /\ UNCHANGED <<taskOutputs, taskStopTimes, runTimesFile, gor>>
    /\ UNCHANGED <<call, now, sweepVars, tokenVars>>

\* go runTask(taskID), and the answer "OK".
RunTaskGo(h) ==
    /\ ServerUp
    /\ handler[h].pc = "go"
    /\ gor' = Put(gor, Cardinality(DOMAIN gor) + 1,
                  [pc |-> "pipe", task |-> handler[h].taskID, pipe |-> NoCmd,
                   reply |-> "OK", written |-> FALSE])
    /\ handler' = [handler EXCEPT ![h].pc = "done", ![h].response = <<Msg("OK")>>]
    /\ UNCHANGED <<call, now, sweepVars, tokenVars, runningTasks, cmds, nextCmd, taskOutputs,
                   taskStartTimes, taskRunTimes, taskRuntimeGuesses, taskStopTimes,
                   runTimesFile>>

----------------------------------------------------------------------------
(* func runTask(theTaskID string), run as a goroutine.                     *)

\* Empty the Task's output and ask the Task's exec.Cmd for its stdout pipe.
\* StdoutPipe fails when Stdout is already set or the process has started;
\* a Task with no entry in runningTasks gives a nil *exec.Cmd.
runTaskPipe(g) ==
    /\ ServerUp
    /\ gor[g].pc = "pipe"
    /\ LET theTaskID == gor[g].task
           cmd == Lookup(runningTasks, theTaskID, NoCmd)
       IN  /\ taskOutputs' = Put(taskOutputs, theTaskID, <<>>)
           /\ IF cmd = NoCmd
              THEN /\ gor' = [gor EXCEPT ![g].pc = "panic"]
                   /\ UNCHANGED cmds
              ELSE IF cmds[cmd].stdout \/ cmds[cmd].proc # "none"
              THEN /\ gor' = [gor EXCEPT ![g].pc = "failed"]
                   /\ UNCHANGED cmds
              ELSE /\ gor' = [gor EXCEPT ![g].pc = "start", ![g].pipe = cmd]
                   /\ cmds' = [cmds EXCEPT ![cmd].stdout = TRUE]
    /\ UNCHANGED <<call, now, sweepVars, tokenVars, runningTasks, nextCmd, taskStartTimes,
                   taskRunTimes, taskRuntimeGuesses, taskStopTimes, runTimesFile, handler>>

\* Start the Task's exec.Cmd.  Start fails when the program cannot be
\* executed or the exec.Cmd was started before; runTask then returns.
runTaskStart(g) ==
    /\ ServerUp
    /\ gor[g].pc = "start"
    /\ LET cmd == Lookup(runningTasks, gor[g].task, NoCmd)
       IN  IF cmd = NoCmd
           THEN /\ gor' = [gor EXCEPT ![g].pc = "panic"]
                /\ UNCHANGED cmds
           ELSE IF cmds[cmd].proc # "none" \/ cmds[cmd].name \notin Executables
           THEN /\ gor' = [gor EXCEPT ![g].pc = "failed"]
                /\ UNCHANGED cmds
           ELSE /\ gor' = [gor EXCEPT ![g].pc = "read"]
                /\ cmds' = [cmds EXCEPT ![cmd].proc = "running",
                                        ![cmd].out = Stdout(cmds[cmd].args)]
    /\ UNCHANGED <<call, now, sweepVars, tokenVars, runningTasks, nextCmd, taskOutputs,
                   taskStartTimes, taskRunTimes, taskRuntimeGuesses, taskStopTimes,
                   runTimesFile, handler>>

\* One Read of the pipe that returns readSize atoms of output: the non-blank
\* lines of the chunk are appended to the Task's output.
runTaskRead(g, readSize) ==
    /\ ServerUp
    /\ gor[g].pc = "read"
    /\ LET theTaskID == gor[g].task
           pipe == gor[g].pipe
       IN  /\ cmds[pipe].proc = "running"
           /\ readSize \in 1 .. Len(cmds[pipe].out)
           /\ taskOutputs' = Put(taskOutputs, theTaskID,
                  Lookup(taskOutputs, theTaskID, <<>>) \o
                  NonBlank(Split(SubSeq(cmds[pipe].out, 1, readSize), NEWLINE)))
           /\ cmds' = [cmds EXCEPT ![pipe].out =
                          SubSeq(cmds[pipe].out, readSize + 1, Len(cmds[pipe].out))]
    /\ UNCHANGED <<call, now, sweepVars, tokenVars, runningTasks, nextCmd, taskStartTimes,
                   taskRunTimes, taskRuntimeGuesses, taskStopTimes, runTimesFile,
                   handler, gor>>

\* The process has written everything and exited: Read returns io.EOF and
\* the loop ends.  The pipe of an exec.Cmd that never started gives nothing.
runTaskEOF(g) ==
    /\ ServerUp
    /\ gor[g].pc = "read"
    /\ LET pipe == gor[g].pipe
       IN  /\ cmds[pipe].proc = "running"
           /\ cmds[pipe].out = <<>>
           /\ cmds' = [cmds EXCEPT ![pipe].proc = "exited"]
    /\ gor' = [gor EXCEPT ![g].pc = "record"]
    /\ UNCHANGED <<call, now, sweepVars, tokenVars, runningTasks, nextCmd, taskOutputs,
                   taskStartTimes, taskRunTimes, taskRuntimeGuesses, taskStopTimes,
                   runTimesFile, handler>>

\* Record the stop time and append the run time to the Task's run times.
runTaskRecord(g) ==
    /\ ServerUp
    /\ gor[g].pc = "record"
    /\ LET theTaskID == gor[g].task
           runTime == now - Lookup(taskStartTimes, theTaskID, 0)
       IN  /\ taskStopTimes' = Put(taskStopTimes, theTaskID, now)
           /\ taskRunTimes' = Put(taskRunTimes, theTaskID,
                                  Append(Lookup(taskRunTimes, theTaskID, <<>>), runTime))
    /\ gor' = [gor EXCEPT ![g].pc = "finish"]
    /\ UNCHANGED <<call, now, sweepVars, tokenVars, runningTasks, cmds, nextCmd, taskOutputs,
                   taskStartTimes, taskRuntimeGuesses, runTimesFile, handler>>

\* A finish that leaves the Task in runningTasks when runTimes.txt could not
\* be written.
runTaskFinishStrict(g, written) ==
    /\ ServerUp
    /\ gor[g].pc = "finish"
    /\ LET theTaskID == gor[g].task
           runTimes == Trim(Sort(Lookup(taskRunTimes, theTaskID, <<>>)))
       IN  /\ taskRunTimes' = Put(taskRunTimes, theTaskID, runTimes)
           /\ runTimesFile' = IF written
                               THEN Put(runTimesFile, theTaskID, FormatRunTimes(runTimes))
                               ELSE runTimesFile
           /\ runningTasks' = IF written THEN Delete(runningTasks, theTaskID)
                               ELSE runningTasks
    /\ gor' = [gor EXCEPT ![g].pc = "ended", ![g].written = written]
    /\ UNCHANGED <<call, now, sweepVars, tokenVars, cmds, nextCmd, taskOutputs, taskStartTimes,
                   taskRuntimeGuesses, taskStopTimes, handler>>

\* Sort and trim the run times, write runTimes.txt and remove the Task from
\* runningTasks.  ioutil.WriteFile may fail (written is then FALSE): its
\* error is not looked at, and the file stays as it was.
runTaskFinish(g, written) ==
    /\ ServerUp
    /\ gor[g].pc = "finish"
    /\ LET theTaskID == gor[g].task
           runTimes == Trim(Sort(Lookup(taskRunTimes, theTaskID, <<>>)))
       IN  /\ taskRunTimes' = Put(taskRunTimes, theTaskID, runTimes)
           /\ runTimesFile' = IF written
                               THEN Put(runTimesFile, theTaskID, FormatRunTimes(runTimes))
                               ELSE runTimesFile
           /\ runningTasks' = Delete(runningTasks, theTaskID)
    /\ gor' = [gor EXCEPT ![g].pc = "ended", ![g].written = written]
    /\ UNCHANGED <<call, now, sweepVars, tokenVars, cmds, nextCmd, taskOutputs, taskStartTimes,
                   taskRuntimeGuesses, taskStopTimes, handler>>

----------------------------------------------------------------------------
(* /api/getTaskOutput and /api/getTaskRunning                              *)

\* A Task that reports progress: the percentage is computed and the progress
\* line is appended to the slice read from taskOutputs[taskID].  The result of
\* append is stored back in the next step: the statement is not atomic, and
\* nothing keeps runTask from appending in between.
GetTaskOutputProgress(h) ==
    /\ ServerUp
    /\ handler[h].pc = "dispatch"
    /\ handler[h].path = "/api/getTaskOutput"
    /\ TaskConfigs[handler[h].taskID].progress = "Y"
    /\ LET taskID == handler[h].taskID
           before == Lookup(taskOutputs, taskID, <<>>)
       IN  /\ Len(before) < MaxOutput
           /\ \E percentage \in Percentages(now - Lookup(taskStartTimes, taskID, 0),
                                              Lookup(taskRuntimeGuesses, taskID, 0)) :
                 handler' = [handler EXCEPT ![h].pc = "output",
                                ![h].appended = Append(before, ProgressLine(percentage))]
    /\ UNCHANGED <<call, now, sweepVars, tokenVars, taskVars>>

\* The appended slice (when the Task reports progress) is stored in
\* taskOutputs; the output from the given line on is written; a Task that is
\* not running gets the closing lines.  A negative line number is below
\* len(taskOutputs[taskID]) whatever the output holds, and indexes it out of
\* range: the handler panics before it has written a line.
GetTaskOutput(h) ==
    /\ ServerUp
    /\ handler[h].pc \in {"dispatch", "output"}
    /\ handler[h].path = "/api/getTaskOutput"
    /\ LET taskID == handler[h].taskID
           progress == TaskConfigs[taskID].progress = "Y"
           outputLineNumber == handler[h].line
           output == IF progress THEN handler[h].appended
                     ELSE Lookup(taskOutputs, taskID, <<>>)
           closing == IF taskIsRunning(taskID) THEN <<>>
                      ELSE (IF progress THEN <<ProgressLine(100)>> ELSE <<>>)
                           \o <<Msg("ERROR: EOF")>>
       IN  /\ handler[h].pc = IF progress THEN "output" ELSE "dispatch"
           /\ taskOutputs' = IF progress THEN Put(taskOutputs, taskID, output)
                             ELSE taskOutputs
           /\ handler' = [handler EXCEPT ![h].pc = "done", ![h].response =
                 IF outputLineNumber < 0
                 THEN HandlerFault
                 ELSE SubSeq(output, outputLineNumber + 1, Len(output)) \o closing]
    /\ UNCHANGED <<call, now, sweepVars, tokenVars, runningTasks, cmds, nextCmd, taskStartTimes,
                   taskRunTimes, taskRuntimeGuesses, taskStopTimes, runTimesFile, gor>>

\* An isRunning request that cancels the run it finds.
GetTaskRunningCancels(h) ==
    /\ ServerUp
    /\ handler[h].pc = "dispatch"
    /\ handler[h].path = "/api/getTaskRunning"
    /\ handler' = [handler EXCEPT ![h].pc = "done", ![h].response =
                      IF taskIsRunning(handler[h].taskID) THEN <<Msg("YES")>>
                      ELSE <<Msg("NO")>>]
    /\ runningTasks' = Delete(runningTasks, handler[h].taskID)
    /\ UNCHANGED <<call, now, sweepVars, tokenVars, cmds, nextCmd, taskOutputs, taskStartTimes,
                   taskRunTimes, taskRuntimeGuesses, taskStopTimes, runTimesFile, gor>>

GetTaskRunning(h) ==
    /\ ServerUp
    /\ handler[h].pc = "dispatch"
    /\ handler[h].path = "/api/getTaskRunning"
    /\ handler' = [handler EXCEPT ![h].pc = "done", ![h].response =
                      IF taskIsRunning(handler[h].taskID) THEN <<Msg("YES")>>
                      ELSE <<Msg("NO")>>]
    /\ UNCHANGED <<call, now, sweepVars, tokenVars, taskVars>>

\* The handler returns; its slot serves the next request.
Finish(h) ==
    /\ ServerUp
    /\ handler[h].pc = "done"
    /\ handler' = [handler EXCEPT ![h] = IdleHandler]
    /\ UNCHANGED <<call, now, sweepVars, tokenVars, taskVars>>

----------------------------------------------------------------------------
(* Time and the token sweep.                                               *)

\* One second passes.
Tick(limit) ==
    /\ ServerUp
    /\ now < StartTime + limit
    /\ now' = now + 1
    /\ UNCHANGED <<call, sweepVars, tokenVars, taskVars, handler>>

\* The instants of the token-expiry specification: the first two seconds of
\* every sweep period.  Time moves from one instant to the next, never past
\* a sweep that is due, and only between requests.
TokenInstants ==
    {t \in StartTime .. StartTime + MaxTokenElapsed :
        (t - StartTime) % tokenCheckPeriod \in {0, 1}}

Advance ==
    /\ ServerUp
    /\ \A h \in Handlers : handler[h].pc = "idle"
    /\ \E t \in TokenInstants :
          /\ t > now
          /\ t <= nextSweep
          /\ \A u \in TokenInstants : u > now => t <= u
          /\ now' = t
    /\ UNCHANGED <<call, sweepVars, tokenVars, taskVars, handler>>

\* A sweep that removes a token as soon as it is tokenTimeout old.
clearExpiredTokensEarly ==
    /\ ServerUp
    /\ sweep.pc = "sleep"
    /\ now >= nextSweep
    /\ tokens' = [t \in {x \in DOMAIN tokens : ~(now - tokenTimeout >= tokens[x])}
                    |-> tokens[t]]
    /\ nextSweep' = now + tokenCheckPeriod
    /\ UNCHANGED <<call, now, sweep, issuedFor, taskVars, handler>>

\* One pass of the loop of func clearExpiredTokens(), then time.Sleep, when
\* no other goroutine runs during the pass.
clearExpiredTokens ==
    /\ ServerUp
    /\ sweep.pc = "sleep"
    /\ now >= nextSweep
    /\ tokens' = [t \in {x \in DOMAIN tokens : ~(now - tokenTimeout > tokens[x])}
                    |-> tokens[t]]
    /\ nextSweep' = now + tokenCheckPeriod
    /\ UNCHANGED <<call, now, sweep, issuedFor, taskVars, handler>>

\* The same pass, one step of the goroutine at a time.  The pass begins: the
\* timestamp is taken and the range over the map starts.
SleepingSweep == [pc |-> "sleep", currentTimestamp |-> 0, pending |-> {},
                  token |-> "", timestamp |-> 0]

sweepWake ==
    /\ ServerUp
    /\ sweep.pc = "sleep"
    /\ now >= nextSweep
    /\ sweep' = [SleepingSweep EXCEPT !.pc = "range", !.currentTimestamp = now,
                                      !.pending = DOMAIN tokens]
    /\ UNCHANGED <<call, now, nextSweep, tokenVars, taskVars, handler>>

\* The range yields one entry, token and timestamp, of those still in the
\* map.
sweepVisit(token) ==
    /\ ServerUp
    /\ sweep.pc = "range"
    /\ token \in sweep.pending
    /\ sweep' = IF token \in DOMAIN tokens
                THEN [sweep EXCEPT !.pc = "visit", !.pending = @ \ {token},
                                   !.token = token, !.timestamp = tokens[token]]
                ELSE [sweep EXCEPT !.pending = @ \ {token}]
    /\ UNCHANGED <<call, now, nextSweep, tokenVars, taskVars, handler>>

\* The body of the range: the entry is deleted when the timestamp yielded
\* has expired.
sweepDelete ==
    /\ ServerUp
    /\ sweep.pc = "visit"
    /\ tokens' = IF sweep.currentTimestamp - tokenTimeout > sweep.timestamp
                 THEN Delete(tokens, sweep.token) ELSE tokens
    /\ sweep' = [sweep EXCEPT !.pc = "range"]
    /\ UNCHANGED <<call, now, nextSweep, issuedFor, taskVars, handler>>

\* The range is over: time.Sleep(tokenCheckPeriod * time.Second).
sweepSleep ==
    /\ ServerUp
    /\ sweep.pc = "range"
    /\ sweep.pending = {}
    /\ sweep' = SleepingSweep
    /\ nextSweep' = now + tokenCheckPeriod
    /\ UNCHANGED <<call, now, tokenVars, taskVars, handler>>

\* A handler writes the map while the sweep ranges over it: the Go runtime
\* may notice ("concurrent map iteration and map write") and end the
\* server; when it does not notice, the write goes through as in Grant.
concurrentMapFault(h) ==
    /\ ServerUp
    /\ sweep.pc \in {"range", "visit"}
    /\ handler[h].pc = "authorised"
    /\ sweep' = [sweep EXCEPT !.pc = "fatal"]
    /\ UNCHANGED <<call, now, nextSweep, tokenVars, taskVars, handler>>

----------------------------------------------------------------------------
(* Initial state: main() has started the sweep and the web server.         *)

InitMemory ==
    /\ now = StartTime
    /\ nextSweep = StartTime
    /\ sweep = SleepingSweep
    /\ tokens = <<>>
    /\ issuedFor = <<>>
    /\ runningTasks = <<>>
    /\ cmds = <<>>
    /\ nextCmd = 0
    /\ taskOutputs = <<>>
    /\ taskStartTimes = <<>>
    /\ taskRunTimes = <<>>
    /\ taskRuntimeGuesses = <<>>
    /\ taskStopTimes = <<>>
    /\ handler = [h \in Handlers |-> IdleHandler]
    /\ gor = <<>>

\* No Task has run yet: there is no runTimes.txt.
Init == InitMemory /\ runTimesFile = <<>> /\ call = NoCall

\* The server starts after earlier runs of the Task: its runTimes.txt holds
\* one of the given histories, as runTask wrote it.
InitAfterRuns(taskID, histories) ==
    /\ InitMemory
    /\ call = NoCall
    /\ \E history \in histories :
          runTimesFile = IF history = <<>> THEN <<>>
                         ELSE Put(<<>>, taskID, FormatRunTimes(history))

\* All sequences of at most n of the given atoms.
Strings(atoms, n) == UNION {[1 .. k -> atoms] : k \in 0 .. n}

\* The ascending sequences of n run times, none above top: what sort leaves.
RECURSIVE Ascending(_, _)
Ascending(n, top) ==
    IF n = 0 THEN {<<>>}
    ELSE UNION {{Append(s, v) : s \in Ascending(n - 1, v)} : v \in 0 .. top}

----------------------------------------------------------------------------
(* SpecAuth: authorisation and tokens.  Requests for an open and a         *)
(* secret-protected Task, with every combination of token and secret.      *)

AuthTasks == {"abc123", "locked"}
AuthPaths == {"/api/getToken", "/api/keepAlive"}

\* One request at a time: the claims checked here are about what one request
\* decides and writes.
AuthHandlers == {1}

NextAuth ==
    \/ \E h \in AuthHandlers, path \in AuthPaths, taskID \in AuthTasks,
          token \in Tokens \cup {""}, secret \in Secrets :
            Request(h, path, taskID, token, secret, 0)
    \/ \E h \in AuthHandlers, newToken \in Tokens : Grant(h, newToken)
    \/ \E h \in AuthHandlers : GetToken(h)
    \/ \E h \in AuthHandlers : KeepAlive(h)
    \/ \E h \in AuthHandlers : Finish(h)
    \/ Tick(MaxElapsed)
    \/ clearExpiredTokens

SpecAuth == Init /\ [][NextAuth]_vars

----------------------------------------------------------------------------
(* The next-state relation of the Task runner, for given sets of handlers, *)
(* Tasks, request paths and line numbers.  Requests carry no token and no  *)
(* secret: the Tasks run here are open.                                    *)

RunnerToken == "tok1"

RunnerSteps(handlers, tasks, paths, lines, limit, writes) ==
    \/ \E h \in handlers, path \in paths, taskID \in tasks :
          \E line \in IF path = "/api/getTaskOutput" THEN lines ELSE {0} :
            Request(h, path, taskID, "", "", line)
    \/ \E h \in handlers : Grant(h, RunnerToken)
    \/ \E h \in handlers : RunTaskCheck(h)
    \/ \E h \in handlers : RunTaskSetup(h)
    \/ \E h \in handlers : RunTaskGo(h)
    \/ \E h \in handlers : Finish(h)
    \/ \E g \in DOMAIN gor : runTaskPipe(g)
    \/ \E g \in DOMAIN gor : runTaskStart(g)
    \/ \E g \in DOMAIN gor, readSize \in 1 .. 4 : runTaskRead(g, readSize)
    \/ \E g \in DOMAIN gor : runTaskEOF(g)
    \/ \E g \in DOMAIN gor : runTaskRecord(g)
    \/ \E g \in DOMAIN gor, written \in writes : runTaskFinish(g, written)
    \/ Tick(limit)

\* The same, with a runTimes.txt that can always be written.
RunnerNext(handlers, tasks, paths, lines, limit) ==
    RunnerSteps(handlers, tasks, paths, lines, limit, {TRUE})

\* Spec: two runTask requests at a time, for a Task that runs and a Task
\* whose program cannot be started.
Next == RunnerNext(Handlers, {"abc123", "broken"}, {"/api/runTask"}, {0}, MaxElapsed)

Spec == Init /\ [][Next]_vars

\* SpecRate: one request at a time for the rate-limited Task, over enough
\* seconds to pass its limit.
MaxRateElapsed == 4
NextRate == RunnerNext({1}, {"limited"}, {"/api/runTask"}, {0}, MaxRateElapsed)

SpecRate == Init /\ [][NextRate]_vars

\* SpecUnknown: one request at a time, with or without token and secret, for
\* a Task that exists and for a Task id that has no config.txt.
UnknownTask == "nosuchtask"
NextUnknown ==
    \/ \E path \in {"/api/getToken", "/api/runTask"}, taskID \in {"abc123", UnknownTask},
          token \in Tokens \cup {""}, secret \in {"", "s3cr3t"} :
            Request(1, path, taskID, token, secret, 0)
    \/ \E newToken \in Tokens : Grant(1, newToken)
    \/ GetToken(1)
    \/ RunTaskCheck(1)
    \/ RunTaskSetup(1)
    \/ RunTaskGo(1)
    \/ Finish(1)
    \/ \E g \in DOMAIN gor : runTaskPipe(g)
    \/ \E g \in DOMAIN gor : runTaskStart(g)
    \/ \E g \in DOMAIN gor, readSize \in 1 .. 4 : runTaskRead(g, readSize)
    \/ \E g \in DOMAIN gor : runTaskEOF(g)
    \/ \E g \in DOMAIN gor : runTaskRecord(g)
    \/ \E g \in DOMAIN gor : runTaskFinish(g, TRUE)
    \/ Tick(MaxElapsed)

SpecUnknown == Init /\ [][NextUnknown]_vars

\* SpecGuard: one request at a time to run the secret-protected Task, with
\* every combination of token and secret.
NextGuard ==
    \/ \E path \in {"/api/getToken", "/api/runTask"}, token \in Tokens \cup {""},
          secret \in Secrets :
            Request(1, path, "locked", token, secret, 0)
    \/ \E newToken \in Tokens : Grant(1, newToken)
    \/ GetToken(1)
    \/ RunTaskCheck(1)
    \/ RunTaskSetup(1)
    \/ RunTaskGo(1)
    \/ Finish(1)
    \/ \E g \in DOMAIN gor : runTaskPipe(g)
    \/ \E g \in DOMAIN gor : runTaskStart(g)
    \/ \E g \in DOMAIN gor, readSize \in 1 .. 4 : runTaskRead(g, readSize)
    \/ \E g \in DOMAIN gor : runTaskEOF(g)
    \/ \E g \in DOMAIN gor : runTaskRecord(g)
    \/ \E g \in DOMAIN gor : runTaskFinish(g, TRUE)
    \/ Tick(MaxElapsed)

SpecGuard == Init /\ [][NextGuard]_vars

\* SpecWrite: one request at a time for a Task whose runTimes.txt may fail to
\* be written.
NextWrite == RunnerSteps({1}, {"abc123"}, {"/api/runTask"}, {0}, MaxElapsed, BOOLEAN)

SpecWrite == Init /\ [][NextWrite]_vars

\* SpecEmpty: one request at a time, for a Task that runs and a Task whose
\* config.txt has no command.
NextEmpty == RunnerNext({1}, {"abc123", "empty"}, {"/api/runTask"}, {0}, MaxElapsed)

SpecEmpty == Init /\ [][NextEmpty]_vars

\* SpecHistory: two runTask requests at a time for a Task whose runTimes.txt
\* is as full as runTask leaves it.
FullHistories == Ascending(runTimesLimit - 1, MaxElapsed)
NextHistory == RunnerNext(Handlers, {"abc123"}, {"/api/runTask"}, {0}, MaxElapsed)

SpecHistory == InitAfterRuns("abc123", FullHistories) /\ [][NextHistory]_vars

\* SpecEstimate: one request at a time for a Task with a short history of
\* run times of up to MaxDuration seconds.
MaxDuration == 3
MaxHistory == 3
MaxStall == 2
ShortHistories == UNION {Ascending(n, MaxDuration) : n \in 0 .. MaxHistory}
NextEstimate == RunnerNext({1}, {"abc123"}, {"/api/runTask"}, {0}, MaxElapsed)

SpecEstimate == InitAfterRuns("abc123", ShortHistories) /\ [][NextEstimate]_vars

\* SpecPoll: one request at a time, running and polling the Task that
\* reports progress.
PollLines == {0, 1}
NextPoll ==
    \/ RunnerNext({1}, {"report"},
                  {"/api/runTask", "/api/getTaskOutput", "/api/getTaskRunning"},
                  PollLines, MaxElapsed)
    \/ GetTaskOutputProgress(1)
    \/ GetTaskOutput(1)
    \/ GetTaskRunning(1)

\* SpecStream: one request at a time, running and polling a Task that does
\* not report progress.
NextStream ==
    \/ RunnerNext({1}, {"abc123"}, {"/api/runTask", "/api/getTaskOutput"},
                  PollLines, MaxElapsed)
    \/ GetTaskOutput(1)

SpecStream == Init /\ [][NextStream]_vars

SpecPoll == Init /\ [][NextPoll]_vars

\* SpecCursor: one request at a time, running a Task and polling it from
\* line numbers below, within and beyond its output.
CursorLines == {-1, 0, 1, 2}
NextCursor ==
    \/ RunnerNext({1}, {"abc123"}, {"/api/runTask", "/api/getTaskOutput"},
                  CursorLines, MaxElapsed)
    \/ GetTaskOutput(1)

SpecCursor == Init /\ [][NextCursor]_vars

\* SpecTokens: the life of tokens over more than tokenTimeout seconds, with
\* the sweep running every tokenCheckPeriod seconds.
NextTokens ==
    \/ \E token \in Tokens \cup {""} : Request(1, "/api/keepAlive", "abc123", token, "", 0)
    \/ \E newToken \in Tokens : Grant(1, newToken)
    \/ KeepAlive(1)
    \/ Finish(1)
    \/ Advance
    \/ clearExpiredTokens

SpecTokens == Init /\ [][NextTokens]_vars

\* SpecSweep: requests while the sweep makes its pass, step by step.
NextSweep ==
    \/ \E token \in Tokens \cup {""} : Request(1, "/api/keepAlive", "abc123", token, "", 0)
    \/ \E newToken \in Tokens : Grant(1, newToken)
    \/ KeepAlive(1)
    \/ Finish(1)
    \/ Tick(MaxElapsed)
    \/ sweepWake
    \/ \E token \in Tokens : sweepVisit(token)
    \/ sweepDelete
    \/ sweepSleep
    \/ concurrentMapFault(1)

SpecSweep == Init /\ [][NextSweep]_vars

\* SpecRefresh: clients that use a token within tokenTimeout of its last
\* use, over more than tokenTimeout seconds, while the sweep makes its
\* passes step by step.  A token is generated once.  Time moves
\* over the first and the last two seconds of every sweep period, never past
\* a sweep that is due, and a request is in the handler for MaxStall seconds
\* at most.
RefreshInstants ==
    {t \in StartTime .. StartTime + MaxTokenElapsed :
        (t - StartTime) % tokenCheckPeriod \in {0, tokenCheckPeriod - 2, tokenCheckPeriod - 1}}

Elapse ==
    /\ ServerUp
    /\ \E t \in RefreshInstants :
          /\ t > now
          /\ t <= nextSweep
          /\ \A u \in RefreshInstants : u > now => t <= u
          /\ \A h \in Handlers :
                handler[h].pc # "idle" => t - handler[h].currentTimestamp <= MaxStall
          /\ now' = t
    /\ UNCHANGED <<call, sweepVars, tokenVars, taskVars, handler>>

InUse(token) == token \in DOMAIN tokens /\ now - tokens[token] < tokenTimeout
RefreshTokens == {"tok1"}
Unissued == RefreshTokens \ DOMAIN issuedFor

NextRefresh ==
    \/ \E token \in RefreshTokens \cup {""} :
          /\ IF token = "" THEN Unissued # {} ELSE InUse(token)
          /\ Request(1, "/api/keepAlive", "abc123", token, "", 0)
    \/ \E newToken \in (IF handler[1].pc = "authorised" /\ handler[1].token # ""
                         THEN {handler[1].token} ELSE Unissued) : Grant(1, newToken)
    \/ KeepAlive(1)
    \/ Finish(1)
    \/ Elapse
    \/ sweepWake
    \/ \E token \in RefreshTokens : sweepVisit(token)
    \/ sweepDelete
    \/ sweepSleep
    \/ concurrentMapFault(1)

SpecRefresh == Init /\ [][NextRefresh]_vars

----------------------------------------------------------------------------
(* parseCommandString, taken on its own: one step for each turn of its     *)
(* loop.                                                                   *)

\* Command strings: a letter, the space, the tab and the double quote.
MaxCommandLen == 4
CommandAtoms == {"a", SPACE, "\t", QUOTE}
CommandStrings == Strings(CommandAtoms, MaxCommandLen)

parseCommandStringCall(theString) ==
    [pc |-> "parseCommandString", input |-> theString, theString |-> theString,
     result |-> <<>>]

\* One turn of the loop as the earlier file has it: the rest of the string
\* is taken from stringSplit[1] whenever len(stringSplit) > 0, which is
\* always; with one element only the index is out of range and the
\* function panics.
parseCommandStringLoopEarlier ==
    /\ call.pc = "parseCommandString"
    /\ call.theString # <<>>
    /\ LET trimmed == TrimSpace(call.theString)
           stringSplit == IF trimmed # <<>> /\ Head(trimmed) = QUOTE
                          THEN SplitN2(Tail(trimmed), QUOTE)
                          ELSE SplitN2(trimmed, SPACE)
       IN  call' = IF Len(stringSplit) > 1
                   THEN [call EXCEPT !.result = Append(@, stringSplit[1]),
                                     !.theString = stringSplit[2]]
                   ELSE [call EXCEPT !.result = Append(@, stringSplit[1]),
                                     !.pc = "panic"]
    /\ UNCHANGED <<now, sweepVars, tokenVars, taskVars, handler>>

\* One turn of the loop of func parseCommandString.
parseCommandStringLoop ==
    /\ call.pc = "parseCommandString"
    /\ call.theString # <<>>
    /\ LET trimmed == TrimSpace(call.theString)
           stringSplit == IF trimmed # <<>> /\ Head(trimmed) = QUOTE
                          THEN SplitN2(Tail(trimmed), QUOTE)
                          ELSE SplitN2(trimmed, SPACE)
       IN  call' = [call EXCEPT !.result = Append(@, stringSplit[1]),
                                !.theString = IF Len(stringSplit) > 1
                                              THEN stringSplit[2] ELSE <<>>]
    /\ UNCHANGED <<now, sweepVars, tokenVars, taskVars, handler>>

\* theString is empty: return result.
parseCommandStringReturn ==
    /\ call.pc = "parseCommandString"
    /\ call.theString = <<>>
    /\ call' = [call EXCEPT !.pc = "returned"]
    /\ UNCHANGED <<now, sweepVars, tokenVars, taskVars, handler>>

InitParse ==
    /\ InitMemory
    /\ runTimesFile = <<>>
    /\ \E theString \in CommandStrings : call = parseCommandStringCall(theString)

\* SpecParse: parseCommandString on every command string.
NextParse == parseCommandStringLoop \/ parseCommandStringReturn

SpecParse == InitParse /\ [][NextParse]_vars

\* SpecParseEarlier: the same for the parseCommandString of the earlier
\* file.
NextParseEarlier == parseCommandStringLoopEarlier \/ parseCommandStringReturn

SpecParseEarlier == InitParse /\ [][NextParseEarlier]_vars

----------------------------------------------------------------------------
(* getTaskDetails and getTaskList, taken on their own, on the content of   *)
(* the tasks folder.                                                       *)

COLON == ":"

\* tasks/<id>/config.txt: whether it is there, whether it opens, and its
\* lines, as bufio.Scanner gives them.
ConfigFile(exists, opens, lines) == [exists |-> exists, opens |-> opens, lines |-> lines]

\* The defaults of getTaskDetails: keys and values are strings of atoms.
DefaultDetails(theTaskID) ==
    LET keys == {<<"taskID">>, <<"title">>, <<"description">>, <<"secret">>, <<"public">>,
                 <<"ratelimit">>, <<"progress">>, <<"command">>}
    IN  [key \in keys |->
            IF key = <<"taskID">> THEN <<theTaskID>>
            ELSE IF key \in {<<"public">>, <<"progress">>} THEN <<"N">>
            ELSE IF key = <<"ratelimit">> THEN <<"0">>
            ELSE <<>>]

\* The scanner loop: each line is split at its first colon and itemSplit[1]
\* is read whether or not the line had a colon; without one the index is
\* out of range and the function panics.
RECURSIVE ScanConfig(_, _)
ScanConfig(lines, taskDetails) ==
    IF lines = <<>> THEN [fault |-> FALSE, err |-> "", taskDetails |-> taskDetails]
    ELSE LET itemSplit == SplitN2(Head(lines), COLON)
         IN  IF Len(itemSplit) < 2
             THEN [fault |-> TRUE, err |-> "", taskDetails |-> taskDetails]
             ELSE ScanConfig(Tail(lines),
                      Put(taskDetails, TrimSpace(itemSplit[1]), TrimSpace(itemSplit[2])))

\* func getTaskDetails(theTaskID string) (map[string]string, error), on a
\* given config.txt.
getTaskDetailsFrom(theTaskID, file) ==
    IF ~file.exists
    THEN [fault |-> FALSE, err |-> "Invalid taskID", taskDetails |-> <<>>]
    ELSE IF ~file.opens
    THEN [fault |-> FALSE, err |-> "Can't open Task config file.", taskDetails |-> <<>>]
    ELSE ScanConfig(file.lines, DefaultDetails(theTaskID))

\* Lines of a config.txt: a key, the colon, the space and a value.
MaxLineLen == 3
MaxConfigLines == 2
ConfigAtoms == {"public", COLON, SPACE, "Y"}
ConfigLines == Strings(ConfigAtoms, MaxLineLen)
ConfigFiles == {ConfigFile(TRUE, TRUE, lines) : lines \in Strings(ConfigLines, MaxConfigLines)}

\* A call of getTaskDetails runs to its return or to its panic.
getTaskDetailsRun ==
    /\ call.pc = "getTaskDetails"
    /\ LET result == getTaskDetailsFrom(call.theTaskID, call.file)
       IN  call' = [call EXCEPT !.pc = IF result.fault THEN "panic" ELSE "returned",
                                !.result = result]
    /\ UNCHANGED <<now, sweepVars, tokenVars, taskVars, handler>>

\* The caller goes on with what getTaskDetails returned.
getTaskDetailsDone ==
    /\ call.pc = "returned"
    /\ call' = [call EXCEPT !.pc = "done"]
    /\ UNCHANGED <<now, sweepVars, tokenVars, taskVars, handler>>

\* SpecDetails: getTaskDetails on every content of an existing config.txt.
InitDetails ==
    /\ InitMemory
    /\ runTimesFile = <<>>
    /\ \E file \in ConfigFiles :
          call = [pc |-> "getTaskDetails", theTaskID |-> "abc123", file |-> file,
                  result |-> [fault |-> FALSE, err |-> "", taskDetails |-> <<>>]]

NextDetails == getTaskDetailsRun \/ getTaskDetailsDone

SpecDetails == InitDetails /\ [][NextDetails]_vars

\* func getTaskList() ([]map[string]string, error), on the entries that
\* ioutil.ReadDir("tasks") gives, in order.
RECURSIVE getTaskListFrom(_, _)
getTaskListFrom(entries, taskList) ==
    IF entries = <<>> THEN [fault |-> FALSE, err |-> "", taskList |-> taskList]
    ELSE LET details == getTaskDetailsFrom(Head(entries).name, Head(entries).file)
         IN  IF details.fault THEN [fault |-> TRUE, err |-> "", taskList |-> taskList]
             ELSE IF details.err = ""
             THEN getTaskListFrom(Tail(entries), Append(taskList, details.taskDetails))
             ELSE [fault |-> FALSE, err |-> details.err, taskList |-> taskList]

getTaskList(folder) ==
    IF folder.readable THEN getTaskListFrom(folder.entries, <<>>)
    ELSE [fault |-> FALSE, err |-> "Can't read Tasks folder.", taskList |-> <<>>]

\* The Task IDs that a caller writes out, from the details it was given.
RECURSIVE TaskIDsOf(_, _)
TaskIDsOf(taskList, publicOnly) ==
    IF taskList = <<>> THEN <<>>
    ELSE (IF publicOnly /\ Head(taskList)[<<"public">>] # <<"Y">> THEN <<>>
          ELSE <<Head(taskList)[<<"taskID">>]>>)
         \o TaskIDsOf(Tail(taskList), publicOnly)

\* What a caller of getTaskList writes: the Tasks, or "ERROR: " and the
\* error; nothing when getTaskList panics.
ListingOutput(listing, publicOnly) ==
    IF listing.fault THEN [error |-> "", tasks |-> <<>>]
    ELSE IF listing.err = ""
    THEN [error |-> "", tasks |-> TaskIDsOf(listing.taskList, publicOnly)]
    ELSE [error |-> listing.err, tasks |-> <<>>]

\* /api/getPublicTaskList: the public Tasks.
getPublicTaskList ==
    /\ call.pc = "getTaskList"
    /\ call.caller = "/api/getPublicTaskList"
    /\ LET listing == getTaskList(call.folder)
       IN  call' = [call EXCEPT !.pc = IF listing.fault THEN "panic" ELSE "done",
                                !.output = ListingOutput(listing, TRUE)]
    /\ UNCHANGED <<now, sweepVars, tokenVars, taskVars, handler>>

\* The command-line option -list: all Tasks.
listOption ==
    /\ call.pc = "getTaskList"
    /\ call.caller = "-list"
    /\ LET listing == getTaskList(call.folder)
       IN  call' = [call EXCEPT !.pc = IF listing.fault THEN "panic" ELSE "done",
                                !.output = ListingOutput(listing, FALSE)]
    /\ UNCHANGED <<now, sweepVars, tokenVars, taskVars, handler>>

\* The tasks folder: up to MaxEntries Task folders, each with no config.txt,
\* one that does not open, an empty one, one that makes the Task public, or
\* one with a line that has no colon.
MaxEntries == 3
EntryNames == <<"abc123", "locked", "limited", "report", "broken", "empty">>
ListFiles ==
    {ConfigFile(FALSE, FALSE, <<>>), ConfigFile(TRUE, FALSE, <<>>),
     ConfigFile(TRUE, TRUE, <<>>),
     ConfigFile(TRUE, TRUE, <<<<"public", COLON, SPACE, "Y">>>>),
     ConfigFile(TRUE, TRUE, <<<<"public">>>>)}
Folders ==
    {[readable |-> FALSE, entries |-> <<>>]} \cup
    {[readable |-> TRUE,
      entries |-> [i \in 1 .. Len(files) |-> [name |-> EntryNames[i], file |-> files[i]]]] :
        files \in Strings(ListFiles, MaxEntries)}

\* SpecList: both callers of getTaskList on every tasks folder.
InitList ==
    /\ InitMemory
    /\ runTimesFile = <<>>
    /\ \E folder \in Folders, caller \in {"/api/getPublicTaskList", "-list"} :
          call = [pc |-> "getTaskList", caller |-> caller, folder |-> folder,
                  output |-> [error |-> "", tasks |-> <<>>]]

NextList == getPublicTaskList \/ listOption

SpecList == InitList /\ [][NextList]_vars

----------------------------------------------------------------------------
(* Authorisation claims, checked under SpecAuth.                           *)

\* The step in which handler h decides a request.
Decides(h) == handler[h].pc = "idle" /\ handler'[h].pc # "idle"
NotAuthorised(reason) == <<Msg("ERROR: Not authorised - " \o reason \o ".")>>

\* C5: a request carrying a token is authorised if and only if the token is
\* in the token map, whatever secret comes with it; a refusal gives the
\* reason "invalid or expired token".
C5_TokenAloneDecides ==
    [][\A h \in Handlers :
        (Decides(h) /\ handler'[h].token # "") =>
            /\ (handler'[h].pc = "authorised") <=> (handler'[h].token \in DOMAIN tokens)
            /\ handler'[h].pc # "authorised" =>
                 /\ handler'[h].pc = "done"
                 /\ handler'[h].response = NotAuthorised("invalid or expired token")]_vars

\* A correct secret sent with an unknown token has been refused.
C5_Witness ==
    \E h \in Handlers :
        /\ handler[h].pc = "done"
        /\ handler[h].taskID = "locked"
        /\ handler[h].secret = "s3cr3t"
        /\ handler[h].token # ""
        /\ handler[h].response = NotAuthorised("invalid or expired token")

\* C6: a request carrying no token is authorised if and only if the secret
\* verifies against the Task's stored hash or the Task has no secret.
C6_SecretOrOpenTask ==
    [][\A h \in Handlers :
        (Decides(h) /\ handler'[h].token = "") =>
            LET theHash == TaskConfigs[handler'[h].taskID].secret
            IN  (handler'[h].pc = "authorised") <=>
                    (theHash = "" \/ CompareHashAndPassword(theHash, handler'[h].secret))]_vars

C8_TokenNotScoped ==
    \A tok \in DOMAIN tokens : \A id \in TaskIDs : \A secret \in Secrets :
        Authorised(id, tok, secret)

\* A token created by a request for the open Task has authorised a request,
\* without secret, for the secret-protected Task.
C8_Witness ==
    \E h \in Handlers :
        /\ handler[h].pc = "done"
        /\ handler[h].taskID = "locked"
        /\ handler[h].secret = ""
        /\ Lookup(issuedFor, handler[h].token, "") = "abc123"
        /\ handler[h].response = <<Msg("OK")>>

\* C19: a request for a Task id that has no configuration is answered
\* ERROR: Invalid taskID, whatever token and secret it carries, and neither
\* its arrival nor its end changes the token map, the running Tasks, the
\* processes, the goroutines or any run record.  Checked under SpecUnknown.
C19_UnknownTaskHasNoEffect ==
    [][\A h \in Handlers :
        /\ (Decides(h) /\ handler'[h].taskID \notin TaskIDs) =>
              /\ handler'[h].pc = "done"
              /\ handler'[h].response = <<Msg("ERROR: Invalid taskID")>>
              /\ UNCHANGED <<tokenVars, taskVars>>
        /\ (handler[h].pc # "idle" /\ handler[h].taskID \notin TaskIDs
               /\ handler'[h] # handler[h]) =>
              /\ handler'[h] = IdleHandler
              /\ UNCHANGED <<tokenVars, taskVars>>]_vars

\* A runTask request for the unknown Task id, carrying a token that is in
\* the map, has been answered with the error, and the token keeps the older
\* timestamp it had.
C19_Witness ==
    \E h \in Handlers :
        /\ handler[h].pc = "done"
        /\ handler[h].path = "/api/runTask"
        /\ handler[h].taskID \notin TaskIDs
        /\ handler[h].token \in DOMAIN tokens
        /\ tokens[handler[h].token] < handler[h].currentTimestamp
        /\ handler[h].response = <<Msg("ERROR: Invalid taskID")>>

----------------------------------------------------------------------------
(* Token expiry, checked under SpecTokens.                                 *)

\* A request presenting the token, and no secret, is accepted for any Task.
Accepted(tok) == \A id \in TaskIDs : Authorised(id, tok, "")
SweepPass == nextSweep' # nextSweep

----------------------------------------------------------------------------
(* The Task runner.                                                        *)

LiveProcesses(id) == {c \in DOMAIN cmds : cmds[c].task = id /\ cmds[c].proc = "running"}
ActiveCaptures(id) ==
    {g \in DOMAIN gor : gor[g].task = id /\ gor[g].pc \in {"pipe", "start", "read", "record", "finish"}}
StartsInFlight(id) ==
    {h \in Handlers : handler[h].pc \in {"setup", "go"} /\ handler[h].taskID = id}

\* C1: however runTask requests for a Task overlap, the Task has one process
\* at a time.
C1_OneProcessPerTask ==
    \A id \in TaskIDs : Cardinality(LiveProcesses(id)) <= 1

\* C2: a run whose process could not be started was answered with an error,
\* and its Task is left Idle.
C2_SpawnErrorLeavesIdle ==
    \A g \in DOMAIN gor :
        gor[g].pc = "failed" => gor[g].reply # "OK" /\ ~taskIsRunning(gor[g].task)

\* C3: a Task is Running only while a start request or a capture activity is
\* at work on it: once they have all ended, whatever the way, it is Idle.
C3_RunningEnds ==
    \A id \in TaskIDs :
        taskIsRunning(id) => ActiveCaptures(id) # {} \/ StartsInFlight(id) # {}

\* C15: a start request for a Task with no command is answered with an error
\* (the handler does not fault, and does not answer OK), and the Task is not
\* running.  Checked under SpecEmpty.
C15_EmptyCommandIsSpawnError ==
    \A h \in Handlers :
        (/\ handler[h].pc = "done"
         /\ handler[h].path = "/api/runTask"
         /\ parseCommandString(TaskConfigs[handler[h].taskID].command) = <<>>) =>
            /\ handler[h].response # HandlerFault
            /\ handler[h].response # <<Msg("OK")>>
            /\ ~taskIsRunning(handler[h].taskID)

----------------------------------------------------------------------------
(* Rate limiting, checked under SpecRate.                                  *)

\* C9: a start request at time t for a Task that is not running, with rate
\* limit R > 0 and last stop time s, is refused as rate limited when
\* t - s < R, and goes on to start the Task when t - s >= R or when the Task
\* has never completed a run.
C9_RateLimit ==
    [][\A h \in Handlers :
        /\ (/\ handler[h].pc = "dispatch"
            /\ handler[h].path = "/api/runTask"
            /\ handler'[h].pc # "dispatch"
            /\ ~taskIsRunning(handler[h].taskID)
            /\ rateLimitOf(TaskConfigs[handler[h].taskID]) > 0) =>
             LET id == handler[h].taskID
                 R == rateLimitOf(TaskConfigs[id])
                 t == handler[h].currentTimestamp
             IN  IF id \in DOMAIN taskStopTimes /\ t - taskStopTimes[id] < R
                 THEN /\ handler'[h].pc = "done"
                      /\ handler'[h].response =
                            <<[error |-> "Rate limit exceeded", limit |-> R,
                               wait |-> R - (t - taskStopTimes[id])]>>
                 ELSE handler'[h].pc = "setup"
        /\ (handler[h].pc = "setup" /\ handler'[h].pc # "setup") =>
             /\ handler'[h].pc = "go"
             /\ taskIsRunning(handler[h].taskID)']_vars

\* The Task has been started again exactly R seconds after its last stop.
C9_Witness ==
    \E h \in Handlers :
        /\ handler[h].pc = "go"
        /\ handler[h].taskID \in DOMAIN taskStopTimes
        /\ rateLimitOf(TaskConfigs[handler[h].taskID]) > 0
        /\ handler[h].currentTimestamp - taskStopTimes[handler[h].taskID]
              = rateLimitOf(TaskConfigs[handler[h].taskID])

\* A start request refused as rate limited in this step.
RefusedAsRateLimited(h) ==
    /\ handler[h].pc = "dispatch"
    /\ handler[h].path = "/api/runTask"
    /\ handler'[h].pc = "done"
    /\ ~taskIsRunning(handler[h].taskID)

\* C30: a start request at time t refused as rate limited, for a Task with
\* limit R and last stop time s, reports the wait M = R - (t - s), with
\* 1 <= M <= R, and a request at time t + M, with no run in between, is not
\* rate limited.
C30_ReportedWait ==
    [][\A h \in Handlers :
        RefusedAsRateLimited(h) =>
            LET id == handler[h].taskID
                R == rateLimitOf(TaskConfigs[id])
                t == handler[h].currentTimestamp
                s == Lookup(taskStopTimes, id, 0)
                M == handler'[h].response[1].wait
            IN  /\ M = R - (t - s)
                /\ 1 <= M
                /\ M <= R
                /\ ~RateLimited(t + M, id, R)]_vars

\* C16: a start request that finds its Task running is answered OK and
\* changes nothing of the Task: no exec.Cmd and no goroutine is created, and
\* runningTasks, the start time, the run times, the estimate and the output
\* stay as they are, whatever the rate limit and the last stop time.
C16_AlreadyRunningIsNoOp ==
    [][\A h \in Handlers :
        (/\ handler[h].pc = "dispatch"
         /\ handler[h].path = "/api/runTask"
         /\ handler'[h].pc # "dispatch"
         /\ taskIsRunning(handler[h].taskID)) =>
            /\ handler'[h].pc = "done"
            /\ handler'[h].response = <<Msg("OK")>>
            /\ UNCHANGED <<runningTasks, cmds, nextCmd, gor, taskStartTimes,
                           taskRunTimes, taskRuntimeGuesses, taskOutputs>>]_vars

\* A request that arrived after the run's start, and less than the rate
\* limit after the stop time the run has just recorded, has been answered OK
\* while the Task is still in runningTasks.
C16_Witness ==
    \E h \in Handlers :
        /\ handler[h].pc = "done"
        /\ handler[h].path = "/api/runTask"
        /\ handler[h].response = <<Msg("OK")>>
        /\ taskIsRunning(handler[h].taskID)
        /\ handler[h].currentTimestamp > Lookup(taskStartTimes, handler[h].taskID, 0)
        /\ handler[h].taskID \in DOMAIN taskStopTimes
        /\ handler[h].currentTimestamp - taskStopTimes[handler[h].taskID]
              < rateLimitOf(TaskConfigs[handler[h].taskID])

----------------------------------------------------------------------------
(* Polling, checked under SpecPoll.                                        *)

\* The lines of a Task's output that were captured from its process.
RECURSIVE Captured(_)
Captured(output) ==
    IF output = <<>> THEN <<>>
    ELSE (IF IsProgressLine(Head(output)) THEN <<>> ELSE <<Head(output)>>)
         \o Captured(Tail(output))

RunCompleted(id) ==
    /\ id \in DOMAIN taskStopTimes
    /\ ~taskIsRunning(id)
    /\ ActiveCaptures(id) = {}

\* C10: a poll made once a run has completed returns, from line 0, the
\* captured lines and then ERROR: EOF, and, from the number of lines
\* delivered, no line before ERROR: EOF.
C10_PollAfterCompletion ==
    [][\A h \in Handlers :
        (/\ handler[h].pc \in {"dispatch", "output"}
         /\ handler[h].path = "/api/getTaskOutput"
         /\ handler'[h].pc = "done"
         /\ RunCompleted(handler[h].taskID)) =>
            LET captured == Captured(Lookup(taskOutputs, handler[h].taskID, <<>>))
            IN  /\ handler[h].line = 0 =>
                     handler'[h].response = captured \o <<Msg("ERROR: EOF")>>
                /\ handler[h].line = Len(captured) =>
                     handler'[h].response = <<Msg("ERROR: EOF")>>]_vars

\* s is a prefix of t.
IsPrefix(s, t) == Len(s) <= Len(t) /\ SubSeq(t, 1, Len(s)) = s

\* What a poll from the given line returns of the Task's output (the loop
\* over taskOutputs[taskID]).
LinesFrom(id, line) ==
    SubSeq(Lookup(taskOutputs, id, <<>>), line + 1, Len(Lookup(taskOutputs, id, <<>>)))

\* The answer of a poll that found the Task running: lines only.
PolledWhileRunning(h) ==
    /\ handler[h].pc = "done"
    /\ handler[h].path = "/api/getTaskOutput"
    /\ \A i \in DOMAIN handler[h].response : "msg" \notin DOMAIN handler[h].response[i]

\* C11: the lines a poll from line N returned while the Task was running are
\* a prefix of what a poll from N returns at any later time of the same run.
\* (Polls come one at a time, so no run starts between the poll and the later
\* time at which its answer is compared.)
C11_PollsArePrefixConsistent ==
    \A h \in Handlers :
        (PolledWhileRunning(h) /\ taskIsRunning(handler[h].taskID)) =>
            IsPrefix(handler[h].response, LinesFrom(handler[h].taskID, handler[h].line))

\* C12: no progress line is ever stored in a Task's output, and a poll that
\* found the Task running returns captured lines only.
C12_ProgressOnlyAtStop ==
    /\ \A id \in DOMAIN taskOutputs : \A i \in DOMAIN taskOutputs[id] :
           ~IsProgressLine(taskOutputs[id][i])
    /\ \A h \in Handlers : PolledWhileRunning(h) =>
           \A i \in DOMAIN handler[h].response : ~IsProgressLine(handler[h].response[i])

\* C13: the percentage a poll computes lies in 0..100, and is
\* min(100, floor(100 * (now - startTime) / estimate)) for the start time and
\* the estimate the Task has at the poll.
C13_PercentageFormula ==
    [][\A h \in Handlers :
        (handler[h].pc = "dispatch" /\ handler'[h].pc = "output") =>
            LET id == handler[h].taskID
                percentage == handler'[h].appended[Len(handler'[h].appended)].percent
                elapsed == now - Lookup(taskStartTimes, id, 0)
                estimate == Lookup(taskRuntimeGuesses, id, 0)
            IN  /\ percentage \in 0 .. 100
                /\ estimate > 0 =>
                      percentage = IF (100 * elapsed) \div estimate > 100 THEN 100
                                   ELSE (100 * elapsed) \div estimate]_vars

\* C20: while a Task is Running (one and the same run), its output only grows
\* at the end: what it held before a step is a prefix of what it holds after.
C20_BufferAppendOnly ==
    [][\A id \in TaskIDs :
        (taskIsRunning(id) /\ taskIsRunning(id)' /\ runningTasks'[id] = runningTasks[id]) =>
            IsPrefix(Lookup(taskOutputs, id, <<>>), Lookup(taskOutputs', id, <<>>))]_vars

----------------------------------------------------------------------------
(* Run times and the estimate.                                             *)

\* C14: a Task's run times in memory are never more than 10, and neither are
\* the entries of its runTimes.txt.  Checked under SpecHistory.
C14_HistoryBounded ==
    /\ \A id \in DOMAIN taskRunTimes : Len(taskRunTimes[id]) <= 10
    /\ \A id \in DOMAIN runTimesFile : Len(LoadRunTimes(id)) <= 10

\* C18: the estimate made when a run is set up is 10 when the history loaded
\* from runTimes.txt is empty, and otherwise the mean of the loaded history
\* rounded down: the integer e with e * count <= sum < (e + 1) * count.
\* Checked under SpecEstimate.
C18_EstimateIsFloorMean ==
    [][\A h \in Handlers :
        (handler[h].pc = "setup" /\ handler'[h].pc = "go") =>
            LET id == handler[h].taskID
                loaded == LoadRunTimes(id)
                estimate == taskRuntimeGuesses'[id]
            IN  /\ taskRunTimes'[id] = loaded
                /\ IF loaded = <<>> THEN estimate = 10
                   ELSE /\ estimate * Len(loaded) <= Sum(loaded)
                        /\ Sum(loaded) < (estimate + 1) * Len(loaded)]_vars

\* A run has been set up with a history whose mean is not a whole number,
\* and the half or more above it was dropped.
C18_Witness ==
    \E h \in Handlers :
        /\ handler[h].pc = "go"
        /\ LET runTimes == taskRunTimes[handler[h].taskID]
           IN  /\ runTimes # <<>>
               /\ 2 * (Sum(runTimes) % Len(runTimes)) >= Len(runTimes)
               /\ taskRuntimeGuesses[handler[h].taskID] = Sum(runTimes) \div Len(runTimes)

----------------------------------------------------------------------------
(* The end of a run.                                                       *)

\* C26: when runTimes.txt cannot be written at the end of a run, the run
\* ends as any other: the stop time has been recorded, the output is left as
\* it is for the polls to come, and the Task is no longer running.  Checked
\* under SpecWrite.
C26_WriteFailureStillCompletes ==
    [][\A g \in DOMAIN gor :
        (gor[g].pc = "finish" /\ gor'[g].pc = "ended" /\ ~gor'[g].written) =>
            LET id == gor[g].task
            IN  /\ ~taskIsRunning(id)'
                /\ id \in DOMAIN taskStopTimes'
                /\ taskStopTimes'[id] >= taskStartTimes'[id]
                /\ id \in DOMAIN taskOutputs
                /\ taskOutputs'[id] = taskOutputs[id]
                /\ runTimesFile' = runTimesFile]_vars

\* A first run has ended without its runTimes.txt: the Task is not running,
\* has its stop time and its output.
C26_Witness ==
    \E g \in DOMAIN gor :
        /\ gor[g].pc = "ended"
        /\ ~gor[g].written
        /\ ~taskIsRunning(gor[g].task)
        /\ gor[g].task \notin DOMAIN runTimesFile
        /\ gor[g].task \in DOMAIN taskStopTimes
        /\ Lookup(taskOutputs, gor[g].task, <<>>) # <<>>

IsAscending(s) == \A i \in 1 .. Len(s) - 1 : s[i] <= s[i + 1]
Range(s) == {s[i] : i \in DOMAIN s}

\* The step in which goroutine g sorts, trims and writes the run times.
Finishes(g) == gor[g].pc = "finish" /\ gor'[g].pc = "ended"

\* C23: the history left by the end of a run is the sorted history, less its
\* smallest entries one by one until fewer than 10 are left: 10 entries or
\* more end as the 9 largest.  Checked under SpecHistory.
C23_TrimDropsSmallest ==
    [][\A g \in DOMAIN gor :
        Finishes(g) =>
            LET sorted == Sort(Lookup(taskRunTimes, gor[g].task, <<>>))
                after == taskRunTimes'[gor[g].task]
            IN  /\ IsAscending(after)
                /\ after = IF Len(sorted) >= 10
                           THEN SubSeq(sorted, Len(sorted) - 8, Len(sorted))
                           ELSE sorted]_vars

\* C24: the history left by the end of a run is ascending and holds the
\* duration of that run, stop time less start time.  Checked under
\* SpecHistory.
C24_HistoryHoldsLastRun ==
    [][\A g \in DOMAIN gor :
        Finishes(g) =>
            LET id == gor[g].task
            IN  /\ IsAscending(taskRunTimes'[id])
                /\ taskStopTimes[id] - taskStartTimes[id] \in Range(taskRunTimes'[id])]_vars

\* The capture activities of Task id that have run to their end.
EndedCaptures(id) == {g \in DOMAIN gor : gor[g].task = id /\ gor[g].pc = "ended"}

\* C22: a Task that has run and is seen Idle has a stop time no earlier than
\* its start time, a history that holds the duration between the two, and,
\* where the file was written, a file that holds that history.
C22_IdleAfterRunIsRecorded ==
    \A id \in TaskIDs :
        (EndedCaptures(id) # {} /\ ~taskIsRunning(id)) =>
            /\ id \in DOMAIN taskStopTimes
            /\ taskStopTimes[id] >= taskStartTimes[id]
            /\ taskStopTimes[id] - taskStartTimes[id] \in Range(Lookup(taskRunTimes, id, <<>>))
            /\ (\A g \in EndedCaptures(id) : gor[g].written) =>
                    LoadRunTimes(id) = Lookup(taskRunTimes, id, <<>>)

\* C25: the file written at the end of a run reads back, entry for entry, as
\* the in-memory history it was written from, a run starts from what the
\* file reads back as, and while a Task is running its in-memory history is
\* changed by nothing but its capture recording the run's end.
C25_HistoryRoundTrips ==
    [][\A id \in TaskIDs :
        /\ \A g \in DOMAIN gor :
              (Finishes(g) /\ gor[g].task = id /\ gor'[g].written) =>
                  LoadRunTimes(id)' = taskRunTimes'[id]
        /\ \A h \in Handlers :
              (handler[h].pc = "setup" /\ handler'[h].pc = "go" /\ handler[h].taskID = id) =>
                  taskRunTimes'[id] = LoadRunTimes(id)
        /\ (taskIsRunning(id) /\ Lookup(taskRunTimes, id, <<>>)' # Lookup(taskRunTimes, id, <<>>)) =>
              \E g \in DOMAIN gor :
                  /\ gor[g].task = id
                  /\ gor[g].pc \in {"record", "finish"}
                  /\ gor'[g].pc # gor[g].pc]_vars

----------------------------------------------------------------------------
(* Capture.                                                                *)

\* The non-blank lines of everything the Task's program writes.
OutputLines(id) ==
    NonBlank(Split(Stdout(Tail(parseCommandString(TaskConfigs[id].command))), NEWLINE))

\* C21: once a run has completed, the Task's output is the sequence of the
\* non-blank lines its program wrote, one entry per line, however the reads
\* divided the stream.  Checked under SpecRate, whose Task writes a line of
\* several atoms.
C21_CapturedLinesAreOutputLines ==
    \A id \in TaskIDs :
        RunCompleted(id) => Lookup(taskOutputs, id, <<>>) = OutputLines(id)

----------------------------------------------------------------------------
(* The token map and the sweep, checked under SpecSweep.                   *)

\* A step in which handler h reads the token map (the validity check of a
\* request that carries a token) or writes it (the grant).
TokenMapAccess(h) ==
    \/ Decides(h) /\ handler'[h].token # ""
    \/ handler[h].pc = "authorised" /\ handler'[h].pc = "dispatch"

\* C17: while the sweep is in its pass over the token map, from taking its
\* timestamp to the end of the range, no request handler reads or writes the
\* map.
C17_TokenMapExclusive ==
    [][\A h \in Handlers : sweep.pc \in {"range", "visit"} => ~TokenMapAccess(h)]_vars

----------------------------------------------------------------------------
(* Writers of the token map, checked under SpecTokens.                     *)

\* A step of the sweep goroutine.
SweepActs == nextSweep' # nextSweep \/ sweep' # sweep

\* C27: a token leaves the map in a step of the sweep only; a step of a
\* request handler keeps every token of the map and changes no timestamp
\* but that of the request's own token.
C27_OnlySweepRemoves ==
    [][/\ ~(DOMAIN tokens \subseteq DOMAIN tokens') => SweepActs
       /\ \A h \in Handlers :
             handler'[h] # handler[h] =>
                 /\ DOMAIN tokens \subseteq DOMAIN tokens'
                 /\ \A tok \in DOMAIN tokens :
                       tokens'[tok] # tokens[tok] =>
                           handler'[h].pc = "dispatch" /\ tok = handler'[h].token]_vars

\* The sweep has removed a token, and a request has refreshed its own token,
\* the one that is left in the map.
C27_Witness ==
    \E h \in Handlers :
        /\ handler[h].pc = "dispatch"
        /\ DOMAIN tokens = {handler[h].token}
        /\ tokens[handler[h].token] = now
        /\ DOMAIN issuedFor \ DOMAIN tokens # {}

\* C28: the sweep removes a token only when, at the time of the pass, its
\* timestamp is more than tokenTimeout old, so that a token stamped within
\* tokenTimeout of now is never removed; and a pass leaves no such token in
\* the map.  Checked under SpecRefresh.
C28_SweepRemovesExactlyExpired ==
    [][/\ \A tok \in DOMAIN tokens \ DOMAIN tokens' : now - tokens[tok] > tokenTimeout
       /\ SweepPass =>
             \A tok \in DOMAIN tokens' : ~(now - tokens'[tok] > tokenTimeout)]_vars

\* C29: an authorised request that carries a token stamps the token with the
\* time of the request, and a token stamped less than tokenTimeout ago is
\* still accepted after any step.  Checked under SpecRefresh, where a token
\* is used only within tokenTimeout of its last use.
C29_RefreshOnUse ==
    [][/\ \A h \in Handlers :
             (handler[h].pc = "authorised" /\ handler'[h].pc = "dispatch"
                  /\ handler[h].token # "") =>
                 tokens'[handler[h].token] = handler[h].currentTimestamp
       /\ \A tok \in DOMAIN tokens :
             now' - tokens[tok] < tokenTimeout => Accepted(tok)']_vars

----------------------------------------------------------------------------
(* Cancellation.                                                           *)

\* C31: a Task leaves runningTasks only in the last step of a capture of
\* that Task whose process has ended its output; a step of a request handler
\* removes no Task from runningTasks and ends no process.  Checked under
\* SpecPoll.
C31_OnlyCaptureEndsRun ==
    [][\A id \in TaskIDs :
        /\ (taskIsRunning(id) /\ ~taskIsRunning(id)') =>
              /\ handler' = handler
              /\ \E g \in DOMAIN gor :
                    /\ gor[g].task = id
                    /\ Finishes(g)
                    /\ cmds[gor[g].pipe].proc = "exited"
        /\ (handler' # handler) =>
              /\ taskIsRunning(id) => taskIsRunning(id)'
              /\ LiveProcesses(id) \subseteq LiveProcesses(id)']_vars

\* An isRunning request found the Task running, and before the request has
\* returned the Task's capture has taken it out of runningTasks.
C31_Witness ==
    \E h \in Handlers :
        /\ handler[h].pc = "done"
        /\ handler[h].path = "/api/getTaskRunning"
        /\ handler[h].response = <<Msg("YES")>>
        /\ ~taskIsRunning(handler[h].taskID)
        /\ EndedCaptures(handler[h].taskID) # {}

----------------------------------------------------------------------------
(* parseCommandString.                                                     *)

\* The fields of a command string as claimed: split at runs of spaces and
\* tabs, a double-quoted sequence being one field, without its quotes.
RECURSIVE Fields(_)
Fields(theString) ==
    LET trimmed == TrimSpace(theString)
        IndexSpace == IndexFrom(trimmed, SPACE, 1)
        IndexTab == IndexFrom(trimmed, "\t", 1)
        i == IF IndexSpace = 0 THEN IndexTab
             ELSE IF IndexTab = 0 THEN IndexSpace
             ELSE IF IndexTab < IndexSpace THEN IndexTab ELSE IndexSpace
    IN  IF trimmed = <<>> THEN <<>>
        ELSE IF Head(trimmed) = QUOTE
        THEN LET quoted == SplitN2(Tail(trimmed), QUOTE)
             IN  <<quoted[1]>> \o (IF Len(quoted) > 1 THEN Fields(quoted[2]) ELSE <<>>)
        ELSE IF i = 0 THEN <<trimmed>>
        ELSE <<SubSeq(trimmed, 1, i - 1)>> \o Fields(SubSeq(trimmed, i + 1, Len(trimmed)))

\* C32: for a command string as getTaskDetails hands it over (trimmed),
\* parseCommandString returns the fields that splitting at runs of spaces
\* and tabs outside double quotes gives, a quoted sequence being one field
\* without its quotes.  Checked under SpecParse.
C32_FieldsOfCommand ==
    (call.pc = "returned" /\ TrimSpace(call.input) = call.input) =>
        call.result = Fields(call.input)

\* C38: every turn of the loop of parseCommandString leaves a shorter string
\* to parse, so that the loop ends, and no turn indexes the result of the
\* split past its end.  Checked under SpecParseEarlier.
C38_ParseEnds ==
    [][call.pc = "parseCommandString" =>
          /\ call'.pc # "panic"
          /\ call'.pc = "parseCommandString" =>
                Len(call'.theString) < Len(call.theString)]_vars

----------------------------------------------------------------------------
(* Task configuration files.                                               *)

\* C37: on every content of an existing config.txt, getTaskDetails returns:
\* a record that has every default key, or an error; it does not fault.
\* Checked under SpecDetails.
C37_DetailsNeverFault ==
    /\ call.pc # "panic"
    /\ call.pc = "returned" =>
          \/ call.result.err # ""
          \/ DOMAIN DefaultDetails(call.theTaskID) \subseteq DOMAIN call.result.taskDetails

\* A config.txt that cannot be read: it is not there, it does not open, or
\* one of its lines is no key and value.
Unreadable(file) ==
    \/ ~file.exists
    \/ ~file.opens
    \/ \E i \in DOMAIN file.lines : IndexFrom(file.lines[i], COLON, 1) = 0

\* C33: when the config.txt of an entry of the tasks folder cannot be read,
\* the caller of the listing has written an error and no Task.  Checked
\* under SpecList.
C33_ListingFailsFast ==
    (/\ call.pc \in {"done", "panic"}
     /\ \E i \in DOMAIN call.folder.entries : Unreadable(call.folder.entries[i].file)) =>
        /\ call.pc = "done"
        /\ call.output.error # ""
        /\ call.output.tasks = <<>>

----------------------------------------------------------------------------
(* Refused requests, checked under SpecGuard.                              *)

\* The request that handler h serves in this step.
Served(h) == IF handler[h].pc = "idle" THEN handler'[h] ELSE handler[h]

\* C34: no step of a request that is not authorised changes the token map,
\* the running Tasks, the processes, the output, the timestamps or the
\* histories, and such a request is answered and ended at once; the request
\* that sets up a process or starts its goroutine holds a token that this
\* same request has stamped.
C34_RefusedRequestHasNoEffect ==
    [][\A h \in Handlers :
        /\ (/\ handler'[h] # handler[h]
            /\ Served(h).taskID \in TaskIDs
            /\ ~Authorised(Served(h).taskID, Served(h).token, Served(h).secret)) =>
              /\ handler'[h].pc \in {"done", "idle"}
              /\ UNCHANGED <<tokenVars, taskVars>>
        /\ (handler'[h] # handler[h] /\ (DOMAIN cmds' # DOMAIN cmds \/ gor' # gor)) =>
              /\ handler[h].token # ""
              /\ Lookup(tokens, handler[h].token, 0) = handler[h].currentTimestamp]_vars

\* A request with a wrong secret has been refused while a process that an
\* authorised request started is running.
C34_Witness ==
    \E h \in Handlers :
        /\ handler[h].pc = "done"
        /\ handler[h].path = "/api/runTask"
        /\ handler[h].token = ""
        /\ handler[h].response = NotAuthorised("incorrect secret")
        /\ \E c \in DOMAIN cmds : cmds[c].proc = "running"

----------------------------------------------------------------------------
(* The line number of a poll, checked under SpecCursor.                    *)

\* The lines of the output from index n on.
FromIndex(output, n) ==
    IF n >= Len(output) THEN <<>>
    ELSE SubSeq(output, (IF n < 0 THEN 0 ELSE n) + 1, Len(output))

\* C39: a poll from any line number n, negative or beyond the end of the
\* output, ends without a panic; it answers the lines of the output at
\* indices n and above and after them closing lines only, so no line of
\* the output when n is at or beyond its end.
C39_AnyCursorIsServed ==
    [][\A h \in Handlers :
        (/\ handler[h].pc \in {"dispatch", "output"}
         /\ handler[h].path = "/api/getTaskOutput"
         /\ handler'[h].pc = "done") =>
            LET output == Lookup(taskOutputs', handler[h].taskID, <<>>)
                lines == FromIndex(output, handler[h].line)
                response == handler'[h].response
            IN  /\ response # HandlerFault
                /\ IsPrefix(lines, response)
                /\ \A i \in Len(lines) + 1 .. Len(response) :
                      response[i] \in {Msg("ERROR: EOF"), ProgressLine(100)}]_vars

----------------------------------------------------------------------------
(* A poll between two runs, checked under SpecStream.                      *)

\* The runs of the Task that were answered OK and have read no output yet.
FreshCaptures(id) == {g \in DOMAIN gor : gor[g].task = id /\ gor[g].pc \in {"pipe", "start"}}

\* C35: once a Task that has run before was started again and the request
\* was answered OK, a poll made before the new run has captured anything
\* answers no line of output: what the earlier run captured is gone.
C35_NoLineOfEarlierRun ==
    [][\A h \in Handlers :
        (/\ handler[h].pc \in {"dispatch", "output"}
         /\ handler[h].path = "/api/getTaskOutput"
         /\ handler'[h].pc = "done"
         /\ EndedCaptures(handler[h].taskID) # {}
         /\ FreshCaptures(handler[h].taskID) # {}) =>
            \A i \in DOMAIN handler'[h].response :
                "text" \notin DOMAIN handler'[h].response[i]]_vars

----------------------------------------------------------------------------
(* Processes of a Task that is not running, checked under Spec.            *)

\* The captures that read the output of a process that is alive.
ReadingCaptures(id) ==
    {g \in DOMAIN gor : /\ gor[g].task = id
                        /\ gor[g].pc = "read"
                        /\ cmds[gor[g].pipe].proc = "running"}

\* C36: a Task that is not in runningTasks has no process that is alive
\* with a capture reading its output into the Task's buffer.
C36_IdleTaskHasNoCapture ==
    \A id \in TaskIDs : ~taskIsRunning(id) => ReadingCaptures(id) = {}

====
